---- MODULE Spec2Model ----
(***************************************************************************)
(* A model of main.py of xenforo-links-archive: the ForumThread parser     *)
(* (from_url / from_row / url), the dedup cache all_urls, the two sqlite   *)
(* tables forum_threads and other_urls, and the /submit and /retrieve      *)
(* handlers.                                                               *)
(*                                                                         *)
(* Strings are sequences of tokens.  A token is a character ("x", ".",     *)
(* "1", "/") or one of the literal substrings the code searches for        *)
(* ("post-", "page-", "threads", "topic"), so that `in`, replace, strip,   *)
(* rsplit, int and join are computed token by token as Python computes     *)
(* them character by character.  The empty string is << >>.                *)
(*                                                                         *)
(* Specifications: Spec (the service on a fresh data.db), SpecParse (the   *)
(* parser alone), SpecFault (the service when statements of sqlite raise), *)
(* SpecRestart (the service over restarts of main) and SpecConc (several   *)
(* clients with requests in flight).                                       *)
(***************************************************************************)
EXTENDS Integers, Sequences, FiniteSets, TLC

VARIABLES
    forum_threads,  \* rows of table forum_threads (committed)
    other_urls,     \* rows of table other_urls (committed)
    all_urls,       \* the process-wide dedup cache: a set of <<ForumThread, url>>
    hash_order,     \* iteration order of a str set in this process (hash seed)
    resp,           \* the response in flight to the client, or Idle
    submitted,      \* history: the (origin, url) pairs of the submits that returned OK
    input,          \* parser: the url given to from_url
    parsed,         \* parser: from_url(input)
    reparsed,       \* parser: from_url(parsed.url)
    rerow,          \* parser: from_row(host, path_qs of parsed)
    pc,             \* parser: position
    fault,          \* the storage statement that raises in the request of resp, or NoFault
    phase,          \* the process: "serving", or "crashed" when main raised
    inbox,          \* concurrent clients: the requests received and not yet handled
    outbox          \* concurrent clients: the response to each client, or NoAnswer

vars == <<forum_threads, other_urls, all_urls, hash_order, resp, submitted,
          input, parsed, reparsed, rerow, pc, fault, phase, inbox, outbox>>

service_vars == <<forum_threads, other_urls, all_urls, resp, submitted>>
parser_vars == <<input, parsed, reparsed, rerow, pc>>
process_vars == <<fault, phase>>
client_vars == <<inbox, outbox>>

-----------------------------------------------------------------------------
(* Bounds *)

MaxSegs == 3        \* path segments of a parser input
MaxDots == 2        \* dots in a generated name segment
MaxStored == 3      \* accepted (origin, url) pairs after which the clients submit no more
MaxBatch == 2       \* length of the urls list of one /submit
MaxClients == 2     \* clients with a request in flight at the same time

-----------------------------------------------------------------------------
(* Python str and list primitives *)

None == -1          \* Python None where an int is expected

Range(s) == {s[i] : i \in 1..Len(s)}

\* tok in s
Contains(s, tok) == \E i \in 1..Len(s) : s[i] = tok

\* s.replace(tok, "")
Replace(s, tok) == SelectSeq(s, LAMBDA t : t # tok)

\* s.strip()
RECURSIVE LStrip(_)
LStrip(s) == IF Len(s) > 0 /\ s[1] = " " THEN LStrip(Tail(s)) ELSE s

RECURSIVE RStrip(_)
RStrip(s) ==
    IF Len(s) > 0 /\ s[Len(s)] = " " THEN RStrip(SubSeq(s, 1, Len(s) - 1)) ELSE s

Strip(s) == RStrip(LStrip(s))

DigitValue == [t \in {"0", "1", "2", "3", "4", "5", "6", "7", "8", "9"} |->
                 CASE t = "0" -> 0 [] t = "1" -> 1 [] t = "2" -> 2 [] t = "3" -> 3
                   [] t = "4" -> 4 [] t = "5" -> 5 [] t = "6" -> 6 [] t = "7" -> 7
                   [] t = "8" -> 8 [] t = "9" -> 9]

DigitToken == [d \in 0..9 |-> CHOOSE t \in DOMAIN DigitValue : DigitValue[t] = d]

\* int(s) returns a value (otherwise it raises ValueError)
IsInt(s) == Len(s) > 0 /\ \A i \in 1..Len(s) : s[i] \in DOMAIN DigitValue

\* int(s), for IsInt(s)
RECURSIVE IntOf(_)
IntOf(s) ==
    IF Len(s) = 0 THEN 0
    ELSE 10 * IntOf(SubSeq(s, 1, Len(s) - 1)) + DigitValue[s[Len(s)]]

\* str(n), n >= 0
RECURSIVE IntStr(_)
IntStr(n) == IF n < 10 THEN <<DigitToken[n]>> ELSE IntStr(n \div 10) \o <<DigitToken[n % 10]>>

\* s.rsplit(sep) and s.split(sep) without maxsplit: split at every sep
RECURSIVE Split(_, _)
Split(s, sep) ==
    IF ~Contains(s, sep) THEN <<s>>
    ELSE LET i == CHOOSE k \in 1..Len(s) : s[k] = sep /\ \A j \in 1..(k - 1) : s[j] # sep
         IN  <<SubSeq(s, 1, i - 1)>> \o Split(SubSeq(s, i + 1, Len(s)), sep)

\* sep.join(xs)
RECURSIVE Join(_, _)
Join(xs, sep) ==
    IF Len(xs) = 0 THEN << >>
    ELSE IF Len(xs) = 1 THEN xs[1]
    ELSE xs[1] \o <<sep>> \o Join(Tail(xs), sep)

\* sorted(xs) of a list of urls (urls are numbered in their sort order)
RECURSIVE Sorted(_)
Sorted(xs) ==
    IF Len(xs) <= 1 THEN xs
    ELSE LET m == CHOOSE i \in 1..Len(xs) : \A j \in 1..Len(xs) : xs[i] <= xs[j]
         IN  <<xs[m]>> \o Sorted(SubSeq(xs, 1, m - 1) \o SubSeq(xs, m + 1, Len(xs)))

-----------------------------------------------------------------------------
(* yarl.URL: a URL is [host, path, fragment]; path is the string "/a/b" *)

Root == <<"/">>

\* "/" + "/".join(segs): the path string of a list of segments
PathOf(segs) == Root \o Join(segs, "/")

\* URL.parts: ("/", seg, seg, ...); "/a/" has the parts ("/", "a", "")
parts(u) ==
    IF u.path = Root THEN <<Root>>
    ELSE <<Root>> \o Split(Tail(u.path), "/")

\* URL.path_qs (inputs carry no query string)
path_qs(u) == u.path

\* str(origin)
UrlStr(u) ==
    <<"https://", u.host>> \o u.path
        \o (IF u.fragment = << >> THEN << >> ELSE <<"#">> \o u.fragment)

MkUrl(host, segs, fragment) == [host |-> host, path |-> PathOf(segs), fragment |-> fragment]

-----------------------------------------------------------------------------
(* ForumThread *)

THREAD_PARTS == << <<"threads">>, <<"topic">> >>

\* the dataclass: host, name, id_, page, thread_path compare; post_number and
\* path_qs are declared compare=False, hash=False
ForumThread(host, name, id_, page, thread_path, post_number, path_qs_) ==
    [host |-> host, name |-> name, id_ |-> id_, page |-> page,
     thread_path |-> thread_path, post_number |-> post_number, path_qs |-> path_qs_]

NoThread == ForumThread("", << >>, None, None, << >>, None, << >>)

\* the generated __eq__ / __hash__: the tuple of the compare=True fields
CompareFields(ft) == <<ft.host, ft.name, ft.id_, ft.page, ft.thread_path>>

\* a variant in which path_qs is not declared compare=False
FtEqWithPathQs(a, b) == CompareFields(a) = CompareFields(b) /\ a.path_qs = b.path_qs

\* a variant in which post_number is not declared compare=False
FtEqWithPost(a, b) == CompareFields(a) = CompareFields(b) /\ a.post_number = b.post_number

FtEq(a, b) == CompareFields(a) = CompareFields(b)

\* ForumThread.as_tuple
as_tuple(ft) == <<ft.host, ft.name, ft.id_, ft.page, ft.post_number, ft.path_qs>>

\* ForumThread.url
url(ft) ==
    [host |-> ft.host,
     path |-> ft.path_qs,
     fragment |-> IF ft.post_number # None /\ ft.post_number # 0
                  THEN <<"post-">> \o IntStr(ft.post_number)
                  ELSE << >>]

\* outcomes of from_url: a ForumThread, or the exception raised
Ok(ft) == [kind |-> "ok", ft |-> ft]
Raise(exc) == [kind |-> exc, ft |-> NoThread]

\* Python index k (0-based) of a tuple
At(t, k) == t[k + 1]

\* tuple.index(x): 0-based position of the first occurrence
IndexOf(t, x) == (CHOOSE i \in 1..Len(t) : t[i] = x /\ \A j \in 1..(i - 1) : t[j] # x) - 1

\* next(part for part in THREAD_PARTS if part in url.parts)
FoundPart(ps) ==
    THREAD_PARTS[CHOOSE i \in 1..Len(THREAD_PARTS) :
                    /\ THREAD_PARTS[i] \in Range(ps)
                    /\ \A j \in 1..(i - 1) : THREAD_PARTS[j] \notin Range(ps)]

\* post_sections = {url.fragment, *url.parts}
PostSections(u) == {u.fragment} \cup Range(parts(u))

PostCandidates(u) == {sec \in PostSections(u) : Contains(sec, "post-")}

\* next((sec for sec in post_sections if "post-" in sec), None): the first
\* candidate in the iteration order of the set, which follows the str hashes of
\* the process; << >> stands for None (both are falsy)
PostString(u, order) ==
    IF PostCandidates(u) = {} THEN << >>
    ELSE order[CHOOSE i \in 1..Len(order) :
                  /\ order[i] \in PostCandidates(u)
                  /\ \A j \in 1..(i - 1) : order[j] \notin PostCandidates(u)]

\* ForumThread.from_url, with the set iteration order of the process
from_url(origin, order) ==
    LET ps == parts(origin)
    IN
    IF origin.host = "" \/ ~\E i \in 1..Len(THREAD_PARTS) : THREAD_PARTS[i] \in Range(ps)
    THEN Raise("ValueError")
    ELSE
    LET name_index == IndexOf(ps, FoundPart(ps)) + 1
    IN
    IF name_index >= Len(ps) THEN Raise("IndexError")
    ELSE
    LET name_seg == At(ps, name_index)
        post_string == PostString(origin, order)
        post_text == Strip(Replace(post_string, "post-"))
        has_page == Len(ps) > name_index + 1 /\ Contains(At(ps, name_index + 1), "page-")
        page_text == Strip(Replace(At(ps, name_index + 1), "page-"))
        pieces == Split(name_seg, ".")
    IN
    IF ~Contains(name_seg, ".") THEN Raise("ValueError")
    ELSE IF post_string # << >> /\ ~IsInt(post_text) THEN Raise("ValueError")
    ELSE IF has_page /\ ~IsInt(page_text) THEN Raise("ValueError")
    ELSE IF Len(pieces) # 2 THEN Raise("ValueError")
    ELSE IF ~IsInt(Strip(pieces[2])) THEN Raise("ValueError")
    ELSE Ok(ForumThread(
            origin.host,
            Strip(pieces[1]),
            IntOf(Strip(pieces[2])),
            IF has_page THEN IntOf(page_text) ELSE 1,
            PathOf(SubSeq(ps, 2, name_index + 1)),
            IF post_string # << >> THEN IntOf(post_text) ELSE None,
            path_qs(origin)))

\* ForumThread.from_row: the row's host and path_qs, no fragment
from_row(row, order) ==
    from_url([host |-> row.host, path |-> row.path_qs, fragment |-> << >>], order)

-----------------------------------------------------------------------------
(* The str hash order of the process *)

Frags == {<< >>, <<"post-", "5">>}

\* "x", "x.1", "x.x.1", ...: a name segment with k dots, numeric after the last
RECURSIVE DotName(_)
DotName(k) ==
    IF k = 0 THEN <<"x">>
    ELSE IF k = 1 THEN <<"x", ".", "1">>
    ELSE <<"x", ".">> \o DotName(k - 1)

ParserSegs ==
    {<<"threads">>, <<"topic">>, <<"f">>}
        \cup {DotName(k) : k \in 0..MaxDots}
        \cup {<<"x", ".", "y">>}                    \* id is no integer
        \cup {<<"page-", "2">>, <<"post-", "5">>}
        \cup {<<"post-", "x", ".", "1">>}           \* a thread title holding "post-"

\* every string of the inputs that holds "post-"
PostStrings == {sec \in ParserSegs \cup Frags : Contains(sec, "post-")}

\* the iteration orders a process can have: the permutations of PostStrings
HashOrders ==
    {o \in [1..Cardinality(PostStrings) -> PostStrings] :
        \A i, j \in DOMAIN o : o[i] = o[j] => i = j}

\* the order is set by the hash seed at process start; it is left open until a
\* set with two candidates is iterated, the first time it can be observed
Unset == << >>

Ambiguous(u) == Cardinality(PostCandidates(u)) > 1

OrdersFor(u) ==
    IF hash_order # Unset THEN {hash_order}
    ELSE IF Ambiguous(u) THEN HashOrders
    ELSE {CHOOSE o \in HashOrders : TRUE}

Observed(u, order) == IF Ambiguous(u) THEN order ELSE hash_order

-----------------------------------------------------------------------------
(* The parser alone: from_url, url and from_row applied to bounded inputs  *)

SegLists == UNION {[1..n -> ParserSegs] : n \in 0..MaxSegs}

\* "/a/b" and, with a trailing slash, "/a/b/" (parts end with "")
ParserPaths ==
    SegLists \cup {segs \o << << >> >> : segs \in {l \in SegLists : Len(l) >= 1}}

ParserInputs == {MkUrl("h", segs, frag) : segs \in ParserPaths, frag \in Frags}

NoUrl == [host |-> "", path |-> Root, fragment |-> << >>]
NoResult == [kind |-> "none", ft |-> NoThread]

ParseUrl ==
    /\ pc = "input"
    /\ \E order \in OrdersFor(input) :
          /\ parsed' = from_url(input, order)
          /\ hash_order' = Observed(input, order)
    /\ pc' = "parsed"
    /\ UNCHANGED <<input, reparsed, rerow>>
    /\ UNCHANGED <<service_vars, process_vars, client_vars>>

RoundTrip ==
    /\ pc = "parsed"
    /\ parsed.kind = "ok"
    /\ \E order \in OrdersFor(url(parsed.ft)) :
          /\ reparsed' = from_url(url(parsed.ft), order)
          /\ rerow' = from_row([host |-> parsed.ft.host, path_qs |-> parsed.ft.path_qs],
                               order)
          /\ hash_order' = Observed(url(parsed.ft), order)
    /\ pc' = "done"
    /\ UNCHANGED <<input, parsed>>
    /\ UNCHANGED <<service_vars, process_vars, client_vars>>

-----------------------------------------------------------------------------
(* Storage: the two sqlite tables of init_db (the date column, which takes  *)
(* part in no key and no query, is left out of the rows)                    *)

ForumColumns == {"host", "name", "id", "page", "post", "url", "date", "path_qs"}

\* UNIQUE(host, name, page, url)
ForumUnique(row) == <<row.host, row.name, row.page, row.url>>

\* UNIQUE(origin, url)
OtherUnique(row) == <<row.origin, row.url>>

\* the row bound by (*forum_thread.as_tuple, url, date_received) to the columns
\* (host, name, id, page, post, path_qs, url, date)
ForumRow(t, u) ==
    [host |-> t[1], name |-> t[2], id |-> t[3], page |-> t[4], post |-> t[5],
     path_qs |-> t[6], url |-> u]

OtherRow(origin, u) == [origin |-> UrlStr(origin), url |-> u]

\* INSERT OR IGNORE INTO forum_threads
InsertForum(table, row) ==
    IF \E r \in table : ForumUnique(r) = ForumUnique(row) THEN table ELSE table \cup {row}

\* INSERT OR IGNORE INTO other_urls
InsertOther(table, row) ==
    IF \E r \in table : OtherUnique(r) = OtherUnique(row) THEN table ELSE table \cup {row}

-----------------------------------------------------------------------------
(* The dedup cache: a Python set of (ForumThread, url) tuples *)

\* (forum_thread, url) in all_urls
InCache(cache, ft, u) == \E e \in cache : Len(e) = 2 /\ FtEq(e[1], ft) /\ e[2] = u

\* a variant that rebinds all_urls to a set of the new pair alone
CacheAssign(cache, ft, u) == {<<ft, u>>}

\* all_urls.add((forum_thread, url)): an equal element is kept as it is
CacheAdd(cache, ft, u) == IF InCache(cache, ft, u) THEN cache ELSE cache \cup {<<ft, u>>}

-----------------------------------------------------------------------------
(* save_data *)

\* the for loop of _save_forum_thread_urls over the urls still to do
RECURSIVE SaveForumLoop(_, _, _, _)
SaveForumLoop(ft, todo, cache, table) ==
    IF todo = << >> THEN [cache |-> cache, table |-> table]
    ELSE IF InCache(cache, ft, Head(todo))
         THEN SaveForumLoop(ft, Tail(todo), cache, table)
         ELSE SaveForumLoop(ft, Tail(todo),
                            CacheAdd(cache, ft, Head(todo)),
                            InsertForum(table, ForumRow(as_tuple(ft), Head(todo))))

\* _save_forum_thread_urls: the cache and table after commit, and new_urls
save_forum_thread_urls(ft, urls, cache, table) ==
    LET before == Cardinality(cache)
        after == SaveForumLoop(ft, Sorted(urls), cache, table)
    IN  [cache |-> after.cache, forum |-> after.table,
         new_urls |-> Cardinality(after.cache) - before]

\* the for loop of _save_other_urls
RECURSIVE SaveOtherLoop(_, _, _)
SaveOtherLoop(origin, todo, table) ==
    IF todo = << >> THEN table
    ELSE SaveOtherLoop(origin, Tail(todo), InsertOther(table, OtherRow(origin, Head(todo))))

\* _save_other_urls: the table after commit, and new_urls (all_urls is not touched)
save_other_urls(origin, urls, cache, table) ==
    LET before == Cardinality(cache)
    IN  [other |-> SaveOtherLoop(origin, Sorted(urls), table),
         new_urls |-> Cardinality(cache) - before]

\* save_data: ValueError of from_url routes to the generic table, any other
\* exception leaves the function
save_data(origin, urls, order, cache, forum, other) ==
    LET r == from_url(origin, order)
    IN  IF r.kind = "ok"
        THEN LET s == save_forum_thread_urls(r.ft, urls, cache, forum)
             IN  [exc |-> "none", route |-> "forum", thread |-> r.ft,
                  new_urls |-> s.new_urls,
                  cache |-> s.cache, forum |-> s.forum, other |-> other]
        ELSE IF r.kind = "ValueError"
        THEN LET s == save_other_urls(origin, urls, cache, other)
             IN  [exc |-> "none", route |-> "other", thread |-> NoThread,
                  new_urls |-> s.new_urls,
                  cache |-> cache, forum |-> forum, other |-> s.other]
        ELSE [exc |-> r.kind, route |-> "none", thread |-> NoThread, new_urls |-> 0,
              cache |-> cache, forum |-> forum, other |-> other]

-----------------------------------------------------------------------------
(* save_data when a statement of sqlite raises (disk full, database locked,  *)
(* I/O error).  ok_left counts the statements (cursor.execute, conn.commit)  *)
(* that still succeed before the one that raises sqlite3.OperationalError.   *)

NoFault == None

\* the statement about to run raises
Fails(ok_left) == ok_left = 0

Spend(ok_left) == IF ok_left = NoFault THEN NoFault ELSE ok_left - 1

\* a variant in which every execute is committed on its own
close_keeps_partial(committed, working) == working

\* the exception leaves the function before conn.commit(): the connection is
\* dropped with its transaction open and sqlite rolls the transaction back
close_without_commit(committed, working) == committed

\* the for loop and the commit of _save_forum_thread_urls
RECURSIVE ForumRun(_, _, _, _, _)
ForumRun(ft, todo, cache, table, ok_left) ==
    IF todo = << >>
    THEN [exc |-> IF Fails(ok_left) THEN "OperationalError" ELSE "none",
          cache |-> cache, table |-> table]
    ELSE IF InCache(cache, ft, Head(todo))
         THEN ForumRun(ft, Tail(todo), cache, table, ok_left)
         ELSE IF Fails(ok_left)
              THEN [exc |-> "OperationalError", cache |-> cache, table |-> table]
              ELSE ForumRun(ft, Tail(todo),
                            CacheAdd(cache, ft, Head(todo)),
                            InsertForum(table, ForumRow(as_tuple(ft), Head(todo))),
                            Spend(ok_left))

\* _save_forum_thread_urls
forum_save(ft, urls, cache, table, ok_left) ==
    LET before == Cardinality(cache)
        run == ForumRun(ft, Sorted(urls), cache, table, ok_left)
    IN  [exc |-> run.exc,
         cache |-> run.cache,
         forum |-> IF run.exc = "none" THEN run.table
                   ELSE close_without_commit(table, run.table),
         new_urls |-> Cardinality(run.cache) - before]

\* the for loop and the commit of _save_other_urls
RECURSIVE OtherRun(_, _, _, _)
OtherRun(origin, todo, table, ok_left) ==
    IF todo = << >>
    THEN [exc |-> IF Fails(ok_left) THEN "OperationalError" ELSE "none", table |-> table]
    ELSE IF Fails(ok_left)
         THEN [exc |-> "OperationalError", table |-> table]
         ELSE OtherRun(origin, Tail(todo),
                       InsertOther(table, OtherRow(origin, Head(todo))), Spend(ok_left))

\* a variant of _save_other_urls that adds (origin, url) to all_urls
other_save_caching(origin, urls, cache, table, ok_left) ==
    LET before == Cardinality(cache)
        run == OtherRun(origin, Sorted(urls), table, ok_left)
        after == cache \cup {<<UrlStr(origin), u>> : u \in Range(urls)}
    IN  [exc |-> run.exc,
         cache |-> after,
         other |-> IF run.exc = "none" THEN run.table
                   ELSE close_without_commit(table, run.table),
         new_urls |-> Cardinality(after) - before]

\* _save_other_urls: all_urls is read and left as it is
other_save(origin, urls, cache, table, ok_left) ==
    LET before == Cardinality(cache)
        run == OtherRun(origin, Sorted(urls), table, ok_left)
    IN  [exc |-> run.exc,
         cache |-> cache,
         other |-> IF run.exc = "none" THEN run.table
                   ELSE close_without_commit(table, run.table),
         new_urls |-> Cardinality(cache) - before]

\* a variant of the except clause of save_data that catches every exception
except_Exception(exc) == exc # "none"

\* except ValueError: (sqlite3.Error is no subclass of ValueError)
except_ValueError(exc) == exc = "ValueError"

\* the try block of save_data, for the outcome r of from_url
save_data_try(r, urls, cache, forum, ok_left) ==
    IF r.kind = "ok"
    THEN forum_save(r.ft, urls, cache, forum, ok_left)
    ELSE [exc |-> r.kind, cache |-> cache, forum |-> forum, new_urls |-> 0]

\* the except block of save_data, after the try block ended as try; the failing
\* statement is counted from its first statement when from_url raised
save_data_except(r, try, origin, urls, other, ok_left) ==
    other_save(origin, urls, try.cache, other, IF r.kind = "ok" THEN NoFault ELSE ok_left)

\* what save_data returns or raises, and the state it leaves
save_data_outcome(r, try, handler, other) ==
    IF try.exc = "none"
    THEN [exc |-> "none", route |-> "forum", thread |-> r.ft,
          new_urls |-> try.new_urls, raised |-> FALSE,
          cache |-> try.cache, forum |-> try.forum, other |-> other]
    ELSE IF except_ValueError(try.exc)
    THEN [exc |-> handler.exc, route |-> "other",
          thread |-> IF r.kind = "ok" THEN r.ft ELSE NoThread,
          new_urls |-> handler.new_urls,
          raised |-> try.exc = "OperationalError" \/ handler.exc = "OperationalError",
          cache |-> handler.cache, forum |-> try.forum, other |-> handler.other]
    ELSE [exc |-> try.exc,
          route |-> IF r.kind = "ok" THEN "forum" ELSE "none",
          thread |-> IF r.kind = "ok" THEN r.ft ELSE NoThread,
          new_urls |-> 0, raised |-> try.exc = "OperationalError",
          cache |-> try.cache, forum |-> try.forum, other |-> other]

\* save_data: the try block is from_url followed by _save_forum_thread_urls,
\* the except ValueError clause runs _save_other_urls
save_data_failing(origin, urls, order, cache, forum, other, ok_left) ==
    LET r == from_url(origin, order)
    IN  LET try == save_data_try(r, urls, cache, forum, ok_left)
        IN  save_data_outcome(r, try,
                              save_data_except(r, try, origin, urls, other, ok_left),
                              other)

-----------------------------------------------------------------------------
(* get_urls_by_origin *)

Truthy(n) == n # None /\ n # 0

\* cursor.execute of "SELECT url FROM forum_threads WHERE c1 = ? AND c2 = ? ..."
\* with the bindings data: the exception sqlite raises, or the urls selected
SelectForum(table, columns, data) ==
    IF \E i \in 1..Len(columns) : columns[i] \notin ForumColumns
    THEN [exc |-> "OperationalError", urls |-> {}]
    ELSE IF Len(data) # Len(columns)
    THEN [exc |-> "ProgrammingError", urls |-> {}]
    ELSE [exc |-> "none",
          urls |-> {r.url : r \in {q \in table :
                                     \A i \in 1..Len(columns) : q[columns[i]] = data[i]}}]

\* _get_forum_thread_urls
get_forum_thread_urls(ft, page, table) ==
    IF Truthy(page)
    THEN SelectForum(table, <<"host", "path", "name", "page">>, as_tuple(ft))
    ELSE SelectForum(table, <<"host", "path", "name">>, SubSeq(as_tuple(ft), 1, 3))

\* a variant that selects without the WHERE origin = ? clause
get_other_urls_any_origin(origin, table) ==
    [exc |-> "none", urls |-> {r.url : r \in table}]

\* _get_other_urls
get_other_urls(origin, table) ==
    [exc |-> "none", urls |-> {r.url : r \in {q \in table : q.origin = UrlStr(origin)}}]

\* get_urls_by_origin
get_urls_by_origin(origin, page, order, forum, other) ==
    LET r == from_url(origin, order)
    IN  IF r.kind = "ok"
        THEN LET g == get_forum_thread_urls(r.ft, page, forum)
             IN  [exc |-> g.exc, route |-> "forum", thread |-> r.ft, urls |-> g.urls]
        ELSE IF r.kind = "ValueError"
        THEN LET g == get_other_urls(origin, other)
             IN  [exc |-> g.exc, route |-> "other", thread |-> NoThread, urls |-> g.urls]
        ELSE [exc |-> r.kind, route |-> "none", thread |-> NoThread, urls |-> {}]

-----------------------------------------------------------------------------
(* The service: /submit and /retrieve.  The handlers hold no await, so the   *)
(* event loop runs each of them to its end before the next; the model keeps  *)
(* one response in flight at a time.                                         *)

\* the concurrent clients, and the outbox of a client that has no response
Clients == 1..MaxClients
NoAnswer == [status |-> "none"]

\* the database and cache as a request finds them
Snapshot == [forum |-> forum_threads, other |-> other_urls, cache |-> all_urls,
             submitted |-> submitted]

NoSnapshot == [forum |-> {}, other |-> {}, cache |-> {}, submitted |-> {}]

Idle == [op |-> "idle", origin |-> NoUrl, page |-> None, urls |-> << >>,
         status |-> "none", exc |-> "none", route |-> "none", thread |-> NoThread,
         new_urls |-> None, out |-> {}, before |-> NoSnapshot]

\* submit_data: {"status:": "OK", "Added n new urls"}, or HTTPException(500)
submit_data(origin, urls, order) ==
    LET s == save_data(origin, urls, order, all_urls, forum_threads, other_urls)
    IN  /\ all_urls' = s.cache
        /\ forum_threads' = s.forum
        /\ other_urls' = s.other
        /\ resp' = [op |-> "submit", origin |-> origin, page |-> None, urls |-> urls,
                    status |-> IF s.exc = "none" THEN "OK" ELSE "ERROR",
                    exc |-> s.exc, route |-> s.route, thread |-> s.thread,
                    new_urls |-> IF s.exc = "none" THEN s.new_urls ELSE None,
                    out |-> {}, before |-> Snapshot]
        /\ submitted' = IF s.exc = "none"
                        THEN submitted \cup {<<origin, u>> : u \in Range(urls)}
                        ELSE submitted

\* retrieve_data: page is Query(1, ge=1), so a request without page asks for page 1
retrieve_data(origin, page_arg, order) ==
    LET page == IF page_arg = None THEN 1 ELSE page_arg
        g == get_urls_by_origin(origin, page, order, forum_threads, other_urls)
    IN  resp' = [op |-> "retrieve", origin |-> origin, page |-> page_arg, urls |-> << >>,
                 status |-> IF g.exc = "none" THEN "OK" ELSE "ERROR",
                 exc |-> g.exc, route |-> g.route, thread |-> g.thread, new_urls |-> None,
                 out |-> g.urls, before |-> Snapshot]

\* the origins and urls the clients send
sThreads == <<"threads">>
sName == <<"x", ".", "1">>
sPost == <<"post-", "5">>

oThread == MkUrl("h", <<sThreads, sName>>, << >>)
oThreadFrag == MkUrl("h", <<sThreads, sName>>, sPost)
oThreadPost == MkUrl("h", <<sThreads, sName, sPost>>, << >>)
oPage2 == MkUrl("h", <<sThreads, sName, <<"page-", "2">> >>, sPost)
oOtherId == MkUrl("h", <<sThreads, <<"x", ".", "2">> >>, << >>)
oTopic == MkUrl("h", << <<"topic">>, sName>>, << >>)
oGeneric == MkUrl("h", << <<"f">> >>, << >>)
oGeneric2 == MkUrl("h", << <<"f">>, sName>>, << >>)
oMarkerLast == MkUrl("h", <<sThreads>>, << >>)

\* the origins the clients submit under
ServiceOrigins ==
    {oThread, oThreadFrag, oThreadPost, oPage2, oOtherId, oTopic,
     oGeneric, oGeneric2, oMarkerLast}

\* submitted urls, numbered in their sort order
Urls == {1, 2}

\* the urls lists the clients send, in any order and with repeats
Batches == UNION {[1..n -> Urls] : n \in 1..MaxBatch}

\* the origins the clients ask for
RetrieveOrigins == {oThread, oPage2, oGeneric, oGeneric2, oMarkerLast}

PageArgs == {None, 1, 2}

Submit(origin, urls) ==
    /\ resp = Idle
    /\ Cardinality(submitted) < MaxStored
    /\ \E order \in OrdersFor(origin) :
          /\ submit_data(origin, urls, order)
          /\ hash_order' = Observed(origin, order)
    /\ UNCHANGED <<parser_vars, process_vars, client_vars>>

Retrieve(origin, page_arg) ==
    /\ resp = Idle
    /\ \E order \in OrdersFor(origin) :
          /\ retrieve_data(origin, page_arg, order)
          /\ hash_order' = Observed(origin, order)
    /\ UNCHANGED <<forum_threads, other_urls, all_urls, submitted>>
    /\ UNCHANGED <<parser_vars, process_vars, client_vars>>

\* the client takes the response
Deliver ==
    /\ resp # Idle
    /\ resp' = Idle
    /\ UNCHANGED <<forum_threads, other_urls, all_urls, submitted, hash_order>>
    /\ fault' = NoFault
    /\ UNCHANGED <<parser_vars, phase, client_vars>>

-----------------------------------------------------------------------------
(* /submit while a statement of sqlite raises *)

\* submit_data once save_data has ended as s: the response and the state
submit_data_outcome(s, origin, urls) ==
    /\ all_urls' = s.cache
    /\ forum_threads' = s.forum
    /\ other_urls' = s.other
    /\ resp' = [op |-> "submit", origin |-> origin, page |-> None, urls |-> urls,
                status |-> IF s.exc = "none" THEN "OK" ELSE "ERROR",
                exc |-> s.exc, route |-> s.route, thread |-> s.thread,
                new_urls |-> IF s.exc = "none" THEN s.new_urls ELSE None,
                out |-> {}, before |-> Snapshot]
    /\ submitted' = IF s.exc = "none"
                    THEN submitted \cup {<<origin, u>> : u \in Range(urls)}
                    ELSE submitted

\* submit_data for a call that reaches the failing statement
submit_data_failing(origin, urls, order, ok_left) ==
    LET s == save_data_failing(origin, urls, order, all_urls, forum_threads, other_urls,
                               ok_left)
    IN  s.raised /\ submit_data_outcome(s, origin, urls)

\* the origins of the clients of a service whose storage can fail
FaultOrigins == {oThread, oOtherId, oGeneric}

\* the origins these clients ask for
FaultRetrieveOrigins == {oThread, oGeneric}

\* the number of statements of a submit that succeed before the failing one
FaultPoints == 0..MaxBatch

\* a /submit in which the statement after ok_left successful ones raises
SubmitFail(origin, urls, ok_left) ==
    /\ resp = Idle
    /\ \E order \in OrdersFor(origin) :
          /\ submit_data_failing(origin, urls, order, ok_left)
          /\ hash_order' = Observed(origin, order)
    /\ fault' = ok_left
    /\ UNCHANGED <<parser_vars, phase, client_vars>>

-----------------------------------------------------------------------------
(* main: the process exits and is started again on the same data.db *)

\* the rows of which from_row iterates a set with two candidates
AmbiguousRows(forum) ==
    {r \in forum : Ambiguous([host |-> r.host, path |-> r.path_qs, fragment |-> << >>])}

\* get_urls: the exception of the first from_row that raises, or the set of
\* (ForumThread, url) of the forum rows and (origin, url, date) of the others
get_urls(forum, other, order) ==
    LET raising == {r \in forum : from_row(r, order).kind # "ok"}
    IN  IF raising # {}
        THEN [exc |-> from_row(CHOOSE r \in raising : TRUE, order).kind, urls |-> {}]
        ELSE [exc |-> "none",
              urls |-> {<<from_row(r, order).ft, r.url>> : r \in forum}
                          \cup {<<r.origin, r.url, "date">> : r \in other}]

\* main: init_db keeps the tables (CREATE TABLE IF NOT EXISTS), get_urls builds
\* all_urls, and only then uvicorn.run serves; an exception of get_urls ends
\* the process before it serves
main(order) ==
    LET g == get_urls(forum_threads, other_urls, order)
    IN  /\ all_urls' = g.urls
        /\ phase' = IF g.exc = "none" THEN "serving" ELSE "crashed"

\* the origins of the clients of a service that is restarted
oTitlePost == MkUrl("h", <<sThreads, <<"post-", "x", ".", "1">> >>, sPost)

RestartOrigins == {oThread, oThreadFrag, oOtherId, oGeneric, oTitlePost}

\* a /submit to the serving process
ServeSubmit(origin, urls) ==
    /\ phase = "serving"
    /\ Submit(origin, urls)

\* the process ends between two requests and main runs in a new process, whose
\* str hashes are new
Restart ==
    /\ resp = Idle
    /\ \E order \in (IF AmbiguousRows(forum_threads) # {}
                     THEN HashOrders ELSE {CHOOSE o \in HashOrders : TRUE}) :
          /\ main(order)
          /\ hash_order' = IF AmbiguousRows(forum_threads) # {} THEN order ELSE Unset
    /\ fault' = NoFault
    /\ UNCHANGED <<forum_threads, other_urls, resp, submitted>>
    /\ UNCHANGED <<parser_vars, client_vars>>

-----------------------------------------------------------------------------
(* Concurrent clients.  uvicorn receives requests while others wait; the     *)
(* event loop then runs one handler at a time, and submit_data holds no      *)
(* await, so a handler runs from its first statement to its response before  *)
(* the next one starts.                                                      *)

ConcOrigins == {oThread, oOtherId}

Request(c, origin, urls) == [client |-> c, origin |-> origin, urls |-> urls]

\* client c sends a /submit while the requests of other clients may wait
Send(c, origin, urls) ==
    /\ outbox[c] = NoAnswer
    /\ \A q \in inbox : q.client # c
    /\ Cardinality(submitted) < MaxStored
    /\ inbox' = inbox \cup {Request(c, origin, urls)}
    /\ UNCHANGED <<service_vars, hash_order, parser_vars, process_vars, outbox>>

\* the event loop runs submit_data for the waiting request of client c;
\* overlap holds the requests that were waiting while it ran
Handle(c) ==
  \E q \in inbox :
    /\ q.client = c
    /\ \E order \in OrdersFor(q.origin) :
          LET s == save_data(q.origin, q.urls, order, all_urls, forum_threads, other_urls)
          IN  /\ all_urls' = s.cache
              /\ forum_threads' = s.forum
              /\ other_urls' = s.other
              /\ outbox' = [outbox EXCEPT ![q.client] =
                              [status |-> IF s.exc = "none" THEN "OK" ELSE "ERROR",
                               origin |-> q.origin, urls |-> q.urls,
                               route |-> s.route, thread |-> s.thread,
                               new_urls |-> IF s.exc = "none" THEN s.new_urls ELSE None,
                               before |-> Snapshot,
                               overlap |-> inbox \ {q}]]
              /\ submitted' = IF s.exc = "none"
                              THEN submitted \cup {<<q.origin, u>> : u \in Range(q.urls)}
                              ELSE submitted
              /\ hash_order' = Observed(q.origin, order)
    /\ inbox' = inbox \ {q}
    /\ UNCHANGED <<resp, parser_vars, process_vars>>

\* the clients take their responses
Take ==
    /\ inbox = {}
    /\ \E c \in Clients : outbox[c] # NoAnswer
    /\ outbox' = [c \in Clients |-> NoAnswer]
    /\ UNCHANGED <<service_vars, hash_order, parser_vars, process_vars, inbox>>

-----------------------------------------------------------------------------
(* Specifications *)

\* main() on a fresh data.db: init_db creates the empty tables, get_urls
\* returns the empty set
InitService ==
    /\ forum_threads = {}
    /\ other_urls = {}
    /\ all_urls = {}
    /\ hash_order = Unset
    /\ resp = Idle
    /\ submitted = {}
    /\ fault = NoFault
    /\ phase = "serving"
    /\ inbox = {}
    /\ outbox = [c \in Clients |-> NoAnswer]

Init ==
    /\ InitService
    /\ input = NoUrl
    /\ parsed = NoResult
    /\ reparsed = NoResult
    /\ rerow = NoResult
    /\ pc = "off"

Next ==
    \/ \E origin \in ServiceOrigins, urls \in Batches : Submit(origin, urls)
    \/ \E origin \in RetrieveOrigins, page_arg \in PageArgs : Retrieve(origin, page_arg)
    \/ Deliver

Spec == Init /\ [][Next]_vars

InitParse ==
    /\ InitService
    /\ input \in ParserInputs
    /\ parsed = NoResult
    /\ reparsed = NoResult
    /\ rerow = NoResult
    /\ pc = "input"

NextParse == ParseUrl \/ RoundTrip

SpecParse == InitParse /\ [][NextParse]_vars

\* the service with storage failures
NextFault ==
    \/ \E origin \in FaultOrigins, urls \in Batches : Submit(origin, urls)
    \/ \E origin \in FaultOrigins, urls \in Batches, ok_left \in FaultPoints :
          SubmitFail(origin, urls, ok_left)
    \/ \E origin \in FaultRetrieveOrigins, page_arg \in PageArgs :
          Retrieve(origin, page_arg)
    \/ Deliver

SpecFault == Init /\ [][NextFault]_vars

\* the service over restarts of its process
NextRestart ==
    \/ \E origin \in RestartOrigins, urls \in Batches : ServeSubmit(origin, urls)
    \/ Deliver
    \/ Restart

SpecRestart == Init /\ [][NextRestart]_vars

\* the service with requests of several clients in flight
NextConc ==
    \/ \E c \in Clients, origin \in ConcOrigins, urls \in Batches : Send(c, origin, urls)
    \/ \E c \in Clients : Handle(c)
    \/ Take

SpecConc == Init /\ [][NextConc]_vars

-----------------------------------------------------------------------------
(* Properties of /submit and /retrieve (specification Spec) *)

SubmitOnForum == resp.op = "submit" /\ resp.route = "forum"
SubmitOnOther == resp.op = "submit" /\ resp.route = "other"
RetrieveOnForum == resp.op = "retrieve" /\ resp.route = "forum"

IsPrefix(a, b) == Len(a) <= Len(b) /\ SubSeq(b, 1, Len(a)) = a

\* the forum table holds url u for the thread and page of ft: a row with its
\* host, name, id and page, received under its thread path
StoredFor(forum, ft, u) ==
    \E r \in forum :
        /\ r.url = u
        /\ r.host = ft.host /\ r.name = ft.name /\ r.id = ft.id_ /\ r.page = ft.page
        /\ IsPrefix(ft.thread_path, r.path_qs)

\* C1: a submit of N distinct urls under a forum-thread origin, M of which the
\* forum table already held for that origin, returns N - M
C1_NewCountIsNMinusM ==
    SubmitOnForum =>
        resp.new_urls =
            Cardinality(Range(resp.urls))
                - Cardinality({u \in Range(resp.urls) :
                                 StoredFor(resp.before.forum, resp.thread, u)})

\* C2: a submit under an origin that is no forum thread returns the number of
\* rows the call newly persisted in the generic table
C2_GenericCountIsRowsAdded ==
    SubmitOnOther => resp.new_urls = Cardinality(other_urls \ resp.before.other)

\* the urls stored for the thread of ft (host, name, id), on the given pages
ThreadUrls(forum, ft, pages) ==
    {r.url : r \in {q \in forum : /\ q.host = ft.host /\ q.name = ft.name
                                   /\ q.id = ft.id_ /\ q.page \in pages}}

AllPages == {r.page : r \in forum_threads}

\* C3: retrieve(origin, page = p) for a forum-thread origin completes without
\* error and returns exactly the urls stored for that thread under page p
C3_RetrievePage ==
    (RetrieveOnForum /\ resp.page # None) =>
        /\ resp.status = "OK"
        /\ resp.out = ThreadUrls(forum_threads, resp.thread, {resp.page})

\* C4: retrieve for a forum-thread origin without a page argument completes
\* without error and returns the urls stored for that thread on all its pages
C4_RetrieveAllPages ==
    (RetrieveOnForum /\ resp.page = None) =>
        /\ resp.status = "OK"
        /\ resp.out = ThreadUrls(forum_threads, resp.thread, AllPages)

\* the path of the origin holds a threads or a topic segment
HasMarker(origin) ==
    \E i \in 1..Len(THREAD_PARTS) : THREAD_PARTS[i] \in Range(parts(origin))

\* the urls submitted so far with exactly this origin
SubmittedWith(origin) == {p[2] : p \in {q \in submitted : q[1] = origin}}

\* C5: for an origin without a threads or topic segment, submit and retrieve
\* take the generic path and do not raise, and retrieve returns exactly the
\* urls submitted so far with that same origin
C5_GenericPath ==
    (resp.op # "idle" /\ ~HasMarker(resp.origin)) =>
        /\ resp.status = "OK"
        /\ resp.route = "other"
        /\ resp.op = "retrieve" => resp.out = SubmittedWith(resp.origin)

\* a retrieve of a generic origin returns its url and not the url that was
\* submitted under another generic origin
C5_Witness ==
    /\ resp.op = "retrieve"
    /\ resp.origin = oGeneric
    /\ resp.out = {1}
    /\ <<oGeneric2, 2>> \in submitted

\* (host, name, id, page) of a ForumThread
Four(ft) == <<ft.host, ft.name, ft.id_, ft.page>>

\* (host, name, id, page) and the thread path prefix
Five(ft) == <<ft.host, ft.name, ft.id_, ft.page, ft.thread_path>>

\* the urls of a submit that the cache did not hold under a key that agrees
\* with the submit's thread on the fields key(_)
NotKnown(key(_)) ==
    {u \in Range(resp.urls) :
        ~\E e \in resp.before.cache : e[2] = u /\ key(e[1]) = key(resp.thread)}

IsPostAnchor(sec) == Len(sec) >= 2 /\ sec[1] = "post-" /\ IsInt(Tail(sec))

\* the origin without its post anchor: no post-N fragment, no post-N segment
StripAnchor(origin) ==
    [host |-> origin.host,
     path |-> PathOf(SelectSeq(Tail(parts(origin)), LAMBDA seg : ~IsPostAnchor(seg))),
     fragment |-> IF IsPostAnchor(origin.fragment) THEN << >> ELSE origin.fragment]

\* the set iteration order in force
Order == IF hash_order # Unset THEN hash_order ELSE CHOOSE o \in HashOrders : TRUE

\* the origins under which url u was submitted before the submit in resp
PriorOrigins(u) == {p[1] : p \in {q \in resp.before.submitted : q[2] = u}}

\* the two origins name the same thread and page and differ only in the post anchor
AnchorVariants(o1, o2) ==
    /\ StripAnchor(o1) = StripAnchor(o2)
    /\ from_url(o1, Order).kind = "ok"
    /\ from_url(o2, Order).kind = "ok"
    /\ Four(from_url(o1, Order).ft) = Four(from_url(o2, Order).ft)

\* C8: of two submits of one url under origins that differ only in the post
\* anchor, the first returns 1 and the second returns 0
C8_AnchorDedup ==
    (SubmitOnForum /\ Len(resp.urls) = 1) =>
        /\ (\E o \in PriorOrigins(resp.urls[1]) : AnchorVariants(o, resp.origin))
              => resp.new_urls = 0
        /\ (\A o \in PriorOrigins(resp.urls[1]) :
                from_url(o, Order).kind = "ok"
                    => Four(from_url(o, Order).ft) # Four(resp.thread))
              => resp.new_urls = 1

\* a url first submitted under one anchor of a thread page is submitted under
\* another anchor of it, and the submit returns 0
C8_Witness ==
    /\ SubmitOnForum
    /\ resp.urls = <<1>>
    /\ resp.new_urls = 0
    /\ <<resp.origin, 1>> \notin resp.before.submitted
    /\ \E o \in PriorOrigins(1) : o # resp.origin /\ AnchorVariants(o, resp.origin)

-----------------------------------------------------------------------------
(* Properties of the parser (specification SpecParse) *)

Parsed == pc \in {"parsed", "done"}

\* C6: from_url returns a fully populated ForumThread or raises ValueError,
\* never another error
C6_ParserTotal ==
    Parsed =>
        /\ parsed.kind \in {"ok", "ValueError"}
        /\ parsed.kind = "ok" =>
              /\ parsed.ft.host # ""
              /\ parsed.ft.id_ # None
              /\ parsed.ft.page # None

\* C9: for every url that from_url accepts, from_url of the ForumThread's url
\* and from_row of its (host, path_qs) succeed and return an equal ForumThread
C9_RoundTrip ==
    pc = "done" =>
        /\ reparsed.kind = "ok" /\ FtEq(reparsed.ft, parsed.ft)
        /\ rerow.kind = "ok" /\ FtEq(rerow.ft, parsed.ft)

\* the name segment of an input that has one: the segment after the marker
HasNameSegment(u) ==
    HasMarker(u) /\ IndexOf(parts(u), FoundPart(parts(u))) + 1 < Len(parts(u))

NameSegment(u) == At(parts(u), IndexOf(parts(u), FoundPart(parts(u))) + 1)

LastDot(seg) == CHOOSE i \in 1..Len(seg) : seg[i] = "." /\ \A j \in (i + 1)..Len(seg) : seg[j] # "."

BeforeLastDot(seg) == SubSeq(seg, 1, LastDot(seg) - 1)
AfterLastDot(seg) == SubSeq(seg, LastDot(seg) + 1, Len(seg))

\* nothing but the name segment can make the parse fail: no "post-" anywhere,
\* no "page-" segment
PlainBesidesName(u) ==
    /\ PostCandidates(u) = {}
    /\ \A seg \in Range(parts(u)) : ~Contains(seg, "page-")

\* C10: a name segment with k >= 1 dots and an integer after the last dot
\* parses to that integer as id and everything before the last dot as name
C10_RightmostDot ==
    (/\ Parsed
     /\ HasNameSegment(input)
     /\ PlainBesidesName(input)
     /\ Contains(NameSegment(input), ".")
     /\ IsInt(Strip(AfterLastDot(NameSegment(input))))) =>
        /\ parsed.kind = "ok"
        /\ parsed.ft.id_ = IntOf(Strip(AfterLastDot(NameSegment(input))))
        /\ parsed.ft.name = Strip(BeforeLastDot(NameSegment(input)))

-----------------------------------------------------------------------------
(* Cache against storage (specification Spec) *)

\* C11: after any sequence of submits from empty storage and cache, the cache
\* holds as many (identity, url) entries as the forum table holds rows, and a
\* submit under a forum-thread origin returns the number of rows it added
C11_CacheMatchesRows ==
    /\ Cardinality(all_urls) = Cardinality(forum_threads)
    /\ SubmitOnForum =>
          resp.new_urls = Cardinality(forum_threads \ resp.before.forum)

-----------------------------------------------------------------------------
(* The marker of the name segment (specification SpecParse) *)

IsMarker(seg) == \E i \in 1..Len(THREAD_PARTS) : THREAD_PARTS[i] = seg

\* both a threads and a topic segment occur in the path
BothMarkers(u) == \A i \in 1..Len(THREAD_PARTS) : THREAD_PARTS[i] \in Range(parts(u))

\* 0-based position in url.parts of the marker that occurs first in the path
FirstMarkerIndex(u) ==
    (CHOOSE i \in 1..Len(parts(u)) :
        /\ IsMarker(parts(u)[i])
        /\ \A j \in 1..(i - 1) : ~IsMarker(parts(u)[j])) - 1

\* C16: when the path holds both markers, the name segment is the one right
\* after the marker at the smaller path position, so the thread path of an
\* accepted url ends with that segment
C16_FirstMarker ==
    (Parsed /\ BothMarkers(input) /\ parsed.kind = "ok") =>
        parsed.ft.thread_path = PathOf(SubSeq(parts(input), 2, FirstMarkerIndex(input) + 2))

-----------------------------------------------------------------------------
(* Properties of /submit under storage failures (specification SpecFault) *)

FailedSubmit == resp.op = "submit" /\ resp.status = "ERROR"

\* C12: a submit that fails part-way through its batch leaves the cache as it
\* found it, so that no pair is cached without a committed row
C12_FailedSubmitKeepsCache ==
    FailedSubmit => all_urls = resp.before.cache

\* a row for url u under the uniqueness key of the thread (host, name, page)
RowFor(forum, ft, u) ==
    \E r \in forum : ForumUnique(r) = <<ft.host, ft.name, ft.page, u>>

\* C13: the writes of one submit are one transaction: after a successful call
\* every url of the batch that the call did not skip as a duplicate has a
\* committed row, and after a failed call both tables hold exactly the rows
\* they held before it
C13_OneTransaction ==
    /\ FailedSubmit =>
          /\ forum_threads = resp.before.forum
          /\ other_urls = resp.before.other
    /\ (SubmitOnForum /\ resp.status = "OK") =>
          \A u \in Range(resp.urls) :
              ~InCache(resp.before.cache, resp.thread, u)
                  => RowFor(forum_threads, resp.thread, u)
    /\ (SubmitOnOther /\ resp.status = "OK") =>
          \A u \in Range(resp.urls) : OtherRow(resp.origin, u) \in other_urls

\* a submit failed after one of its inserts had been executed, and the table
\* holds what it held before
C13_Witness ==
    /\ FailedSubmit
    /\ fault >= 1
    /\ resp.route = "forum"
    /\ all_urls # resp.before.cache
    /\ forum_threads = resp.before.forum

\* C17: the cache only grows: no step of the service, successful or failing,
\* removes an entry
C17_CacheOnlyGrows == [][all_urls \subseteq all_urls']_vars

\* a submit has failed after it added a pair to the cache, a failing retrieve
\* has been served since, and the pair is still cached
C17_Witness ==
    /\ resp.op = "retrieve"
    /\ resp.status = "ERROR"
    /\ resp.before.cache = all_urls
    /\ \E e \in all_urls : ~RowFor(forum_threads, e[1], e[2])

\* the origin of the request in resp classifies as a forum thread
ClassifiesAsThread == from_url(resp.origin, Order).kind = "ok"

\* C18: a storage failure during a submit under a forum-thread origin fails
\* the call: no count is returned and the generic table is not written
C18_StorageFailurePropagates ==
    (resp.op = "submit" /\ fault # NoFault /\ ClassifiesAsThread) =>
        /\ resp.status = "ERROR"
        /\ resp.exc = "OperationalError"
        /\ resp.new_urls = None
        /\ resp.route = "forum"
        /\ other_urls = resp.before.other

\* the second insert of a batch under a forum-thread origin raised
C18_Witness ==
    /\ resp.op = "submit"
    /\ fault = 1
    /\ ClassifiesAsThread
    /\ Len(resp.urls) = 2
    /\ resp.status = "ERROR"

\* C19: when a submit under a forum-thread origin returns successfully, the
\* forum table holds a row for every url of the batch under the origin's host,
\* name and page
C19_SuccessIsDurable ==
    (SubmitOnForum /\ resp.status = "OK") =>
        \A u \in Range(resp.urls) : RowFor(forum_threads, resp.thread, u)

\* C20: a submit under an origin that is no forum thread leaves the cache and
\* the forum table as they were, and a retrieve leaves the cache and both tables
\* as they were
C20_Frame ==
    /\ (resp.op = "submit" /\ ~ClassifiesAsThread) =>
          /\ all_urls = resp.before.cache
          /\ forum_threads = resp.before.forum
    /\ resp.op = "retrieve" =>
          /\ all_urls = resp.before.cache
          /\ forum_threads = resp.before.forum
          /\ other_urls = resp.before.other

\* a generic submit added a row while the cache and the forum table held entries
C20_Witness ==
    /\ SubmitOnOther
    /\ other_urls # resp.before.other
    /\ all_urls # {}
    /\ forum_threads # {}

-----------------------------------------------------------------------------
(* Properties of the restart (specification SpecRestart) *)

\* the cache holds, for the forum row r, an entry of its url under the
\* identity of the submit that stored it
CachedRow(cache, r) ==
    \E e \in cache :
        /\ Len(e) = 2
        /\ e[2] = r.url
        /\ Four(e[1]) = <<r.host, r.name, r.id, r.page>>
        /\ IsPrefix(e[1].thread_path, r.path_qs)

\* C15: main rebuilds the cache and then serves: the process never ends in the
\* rebuild, the cache of the serving process holds an entry for every forum
\* row, and a submit of urls that are all stored for its thread returns 0 and
\* writes no row
C15_RestartPreservesDedup ==
    /\ phase # "crashed"
    /\ \A r \in forum_threads : CachedRow(all_urls, r)
    /\ (SubmitOnForum
          /\ \A u \in Range(resp.urls) : StoredFor(resp.before.forum, resp.thread, u)) =>
          /\ resp.new_urls = 0
          /\ forum_threads = resp.before.forum

-----------------------------------------------------------------------------
(* Properties of concurrent submits (specification SpecConc) *)

\* the requests of clients c1 and c2 were in flight together, c1's was handled
\* first, and both have been answered on the forum path
Concurrent(c1, c2) ==
    /\ c1 # c2
    /\ outbox[c1] # NoAnswer /\ outbox[c2] # NoAnswer
    /\ Request(c2, outbox[c2].origin, outbox[c2].urls) \in outbox[c1].overlap
    /\ outbox[c1].route = "forum" /\ outbox[c2].route = "forum"

\* the urls both requests hold under one identity that the cache did not hold
\* while both were in flight
SharedNew(c1, c2) ==
    {u \in Range(outbox[c1].urls) \cap Range(outbox[c2].urls) :
        /\ FtEq(outbox[c1].thread, outbox[c2].thread)
        /\ ~InCache(outbox[c1].before.cache, outbox[c1].thread, u)}

\* the urls the answer a counted as new
CountedNew(a) == {u \in Range(a.urls) : ~InCache(a.before.cache, a.thread, u)}

\* the rows for url u under the identity of ft
RowsOf(forum, ft, u) ==
    {r \in forum : r.url = u /\ <<r.host, r.name, r.id, r.page>> = Four(ft)}

\* C14: of two concurrent submits that hold the same (identity, url) pair not
\* yet cached, exactly one counts the pair as new and exactly one row is
\* written for it
C14_CriticalSection ==
    \A c1, c2 \in Clients :
        Concurrent(c1, c2) =>
            /\ outbox[c1].new_urls = Cardinality(CountedNew(outbox[c1]))
            /\ outbox[c2].new_urls = Cardinality(CountedNew(outbox[c2]))
            /\ \A u \in SharedNew(c1, c2) :
                  /\ (u \in CountedNew(outbox[c1])) # (u \in CountedNew(outbox[c2]))
                  /\ Cardinality(RowsOf(forum_threads, outbox[c1].thread, u)
                                    \ outbox[c1].before.forum) = 1

====
